---- MODULE Spec2Model ----
(***************************************************************************)
(* A model of the plate engine of PlaTec (src/platec_src/plate.cpp).       *)
(*                                                                         *)
(* Crust heights, masses and centroids are exact rationals <<n, d>>        *)
(* (the float arithmetic of the source without its rounding).  Positions,  *)
(* directions, speeds and impulses are fixed-point integers counted in     *)
(* units of 1/Scale.  size_t values that the source lets wrap below zero   *)
(* are kept as negative integers and compared through U().                 *)
(***************************************************************************)
EXTENDS Integers, Sequences, FiniteSets, TLC

\* plates: the plate objects; last: the operation that ran last, with the
\* plates as they were before it; gone: the (plate, continent) pairs that an
\* aggregateCrust has moved away since the plate's last resetSegments;
\* steps: the number of operations so far.
VARIABLES plates, last, gone, steps

vars == <<plates, last, gone, steps>>

(***************************************************************************)
(* Bounds of the model.                                                    *)
(***************************************************************************)
WorldW == 10
WorldH == 2
Scale == 5
MaxSteps == 3
MaxAggSteps == 5
MaxKinSteps == 4

PlateIds == {"A", "B"}

(***************************************************************************)
(* Exact rational arithmetic.                                              *)
(***************************************************************************)
Abs(x) == IF x < 0 THEN -x ELSE x

RECURSIVE GCD(_, _)
GCD(a, b) == IF b = 0 THEN a ELSE GCD(b, a % b)

\* The value of 0/0 and of x/0: a float that is not a number, or infinite.
\* Arithmetic on it yields it again and every comparison with it is false.
NaN == <<0, 0>>

Rat(n, d) ==
    LET g == GCD(Abs(n), Abs(d))
        s == IF d < 0 THEN -1 ELSE 1
    IN  IF d = 0 THEN NaN ELSE <<(s * n) \div g, (s * d) \div g>>

FromInt(n) == <<n, 1>>
Zero == FromInt(0)
\* The operations divide by common factors before they multiply, so that
\* the intermediate products stay small.
RAdd(a, b) ==
    LET g == GCD(a[2], b[2])
    IN  IF a[2] = 0 \/ b[2] = 0 THEN NaN
        ELSE Rat(a[1] * (b[2] \div g) + b[1] * (a[2] \div g), (a[2] \div g) * b[2])
RSub(a, b) == RAdd(a, <<-b[1], b[2]>>)
RMul(a, b) ==
    LET g1 == GCD(Abs(a[1]), b[2])
        g2 == GCD(Abs(b[1]), a[2])
    IN  IF a[2] = 0 \/ b[2] = 0 THEN NaN
        ELSE <<(a[1] \div g1) * (b[1] \div g2), (a[2] \div g2) * (b[2] \div g1)>>
RDiv(a, b) == RMul(a, IF b[1] < 0 THEN <<-b[2], -b[1]>> ELSE <<b[2], b[1]>>)
RLt(a, b) ==
    LET g == GCD(a[2], b[2])
    IN  a[2] # 0 /\ b[2] # 0 /\ a[1] * (b[2] \div g) < b[1] * (a[2] \div g)
RLe(a, b) ==
    LET g == GCD(a[2], b[2])
    IN  a[2] # 0 /\ b[2] # 0 /\ a[1] * (b[2] \div g) <= b[1] * (a[2] \div g)
\* v * (cond), with the truth value of cond as 1 or 0
Times(v, cond) == RMul(v, IF cond THEN FromInt(1) ELSE Zero)
RPos(a) == a[1] > 0
\* C conversion of a non-negative float to an integer type.
RTrunc(a) == IF a[1] >= 0 THEN a[1] \div a[2] ELSE -((-a[1]) \div a[2])

RECURSIVE RSumOver(_, _, _)
\* the sum of s[lo..hi], by halves
RSumOver(s, lo, hi) ==
    IF lo > hi THEN Zero
    ELSE IF lo = hi THEN s[lo]
    ELSE RAdd(RSumOver(s, lo, (lo + hi) \div 2),
              RSumOver(s, (lo + hi) \div 2 + 1, hi))
RSum(s) == RSumOver(s, 1, Len(s))

\* F applied to the value v: names an intermediate result of the source.
\* v is evaluated once, before F is.
With(v, F(_)) == CHOOSE r \in {F(x) : x \in {v}} : TRUE

\* The array with the elements f[1], f[2], ... computed and stored.
Array(f) == f \o <<>>

\* 0-based access to the row-major rasters.
At(s, i) == s[i + 1]
Put(s, i, v) == [s EXCEPT ![i + 1] = v]

(***************************************************************************)
(* Sentinels.  The source's UNSET segment id is memset(255): the largest   *)
(* size_t; any value above every table size and raster size serves.        *)
(***************************************************************************)
UNSET == 1000000
BAD_INDEX == 2000000
\* A wrapped (negative) size_t compares as a huge value.
U(v) == IF v < 0 THEN v + 1000000000 ELSE v

(***************************************************************************)
(* Rectangle::getMapIndex of the world rectangle [l, r) x [t, b).          *)
(***************************************************************************)
rectGetMapIndex(l, r, t, b, px, py) ==
    LET x == px % WorldW
        y == py % WorldH
        xOk == (x >= l /\ x < r) \/ (x + WorldW >= l /\ x + WorldW < r)
        yOk == (y >= t /\ y < b) \/ (y + WorldH >= t /\ y + WorldH < b)
        lx == (IF x < l THEN x + WorldW ELSE x) - l
        ly == (IF y < t THEN y + WorldH ELSE y) - t
    IN  IF xOk /\ yOk
        THEN [index |-> ly * (r - l) + lx, x |-> lx, y |-> ly]
        ELSE [index |-> BAD_INDEX, x |-> px, y |-> py]

\* (size_t)(int)left of the fixed-point origin.
ILeft(p) == p.left \div Scale
ITop(p) == p.top \div Scale

getMapIndex(p, px, py) ==
    rectGetMapIndex(ILeft(p), ILeft(p) + p.width, ITop(p), ITop(p) + p.height,
                    px, py)

getCrust(p, x, y) ==
    With(getMapIndex(p, x, y),
         LAMBDA r : IF r.index < BAD_INDEX THEN At(p.map, r.index) ELSE Zero)

getCrustTimestamp(p, x, y) ==
    With(getMapIndex(p, x, y),
         LAMBDA r : IF r.index < BAD_INDEX THEN At(p.age_map, r.index) ELSE 0)

(***************************************************************************)
(* plate::plate.  m is the row-major patch of w*h rational heights; dir is *)
(* the unit direction (cos, sin) of the random angle.                      *)
(***************************************************************************)
\* sum over k < n of coordinate(k) * m[k]; byX selects x (k % w) or y (k \div w)
WSum(m, w, n, byX) ==
    RSum([k \in 1..n |->
            RMul(FromInt(IF byX THEN (k - 1) % w ELSE (k - 1) \div w), m[k])])

construct(m, w, h, x, y, plate_age, dir) ==
    With(RSum(m), LAMBDA mass :
        [width |-> w, height |-> h,
         left |-> x * Scale, top |-> y * Scale,
         map |-> m,
         age_map |-> Array([k \in 1..(w * h) |->
                               IF RPos(m[k]) THEN plate_age ELSE 0]),
         segment |-> Array([k \in 1..(w * h) |-> UNSET]),
         seg_data |-> <<>>,
         mass |-> mass,
         cx |-> RDiv(WSum(m, w, w * h, TRUE), mass),
         cy |-> RDiv(WSum(m, w, w * h, FALSE), mass),
         vx |-> dir[1], vy |-> dir[2], velocity |-> Scale,
         dx |-> 0, dy |-> 0,
         ok |-> TRUE])

(***************************************************************************)
(* plate::setCrust, with the growth of the raster.                         *)
(***************************************************************************)
\* The distance taken as it is, not rounded up to whole chunks.
Unchunked(d) == d

\* ((d > 0) + (d >> 3)) << 3
Chunked(d) == ((IF d > 0 THEN 1 ELSE 0) + (d \div 8)) * 8

\* segmentData::shift
shift(sd, dx, dy) ==
    [sd EXCEPT !.x0 = @ + dx, !.x1 = @ + dx, !.y0 = @ + dy, !.y1 = @ + dy]

\* The distances the raster grows by on each side for the world cell (x, y).
growth(p, x, y) ==
    LET ilft == ILeft(p)
        itop == ITop(p)
        irgt == ilft + p.width - 1
        ibtm == itop + p.height - 1
        lft == U(ilft - x)
        rgt == U((IF x < ilft THEN WorldW ELSE 0) + x - irgt)
        top == U(itop - y)
        btm == U((IF y < itop THEN WorldH ELSE 0) + y - ibtm)
        d_lft == Chunked(IF lft < rgt /\ lft < WorldW THEN lft ELSE 0)
        d_rgt == Chunked(IF rgt <= lft /\ rgt < WorldW THEN rgt ELSE 0)
        d_top == Chunked(IF top < btm /\ top < WorldH THEN top ELSE 0)
        d_btm == Chunked(IF btm <= top /\ btm < WorldH THEN btm ELSE 0)
        clampX == p.width + d_lft + d_rgt > WorldW
        clampY == p.height + d_top + d_btm > WorldH
    IN  [lft |-> IF clampX THEN 0 ELSE d_lft,
         rgt |-> IF clampX THEN WorldW - p.width ELSE d_rgt,
         top |-> IF clampY THEN 0 ELSE d_top,
         btm |-> IF clampY THEN WorldH - p.height ELSE d_btm]

\* The old cells copied to the origin of the new raster.
oldIndexUnshifted(p, g, nw, k) ==
    IF (k - 1) % nw < p.width /\ (k - 1) \div nw < p.height
    THEN ((k - 1) \div nw) * p.width + ((k - 1) % nw) + 1
    ELSE 0

\* Lines 853-863: the 1-based index in the old rasters of the cell that is
\* copied to the 1-based index k of the new rasters of width nw; 0 if none.
oldIndex(p, g, nw, k) ==
    LET nx == (k - 1) % nw
        ny == (k - 1) \div nw
    IN  IF /\ nx >= g.lft /\ nx < g.lft + p.width
           /\ ny >= g.top /\ ny < g.top + p.height
        THEN (ny - g.top) * p.width + (nx - g.lft) + 1
        ELSE 0

\* The boxes left where they were.
shiftNone(sds, d_lft, d_top) == sds

\* Lines 871-875: every entry of seg_data is shifted.
shiftSegments(sds, d_lft, d_top) ==
    Array([s \in 1..Len(sds) |-> shift(sds[s], d_lft, d_top)])

\* The raster grown by g: old cells copied at offset (g.lft, g.top).
grow(p, g) ==
    LET nw == p.width + g.lft + g.rgt
        nh == p.height + g.top + g.btm
        l1 == p.left - g.lft * Scale
        t1 == p.top - g.top * Scale
        src(k) == oldIndex(p, g, nw, k)
    IN  [p EXCEPT
           !.left = IF l1 >= 0 THEN l1 ELSE l1 + WorldW * Scale,
           !.top = IF t1 >= 0 THEN t1 ELSE t1 + WorldH * Scale,
           !.width = nw,
           !.height = nh,
           !.map = Array([k \in 1..(nw * nh) |->
                      IF src(k) = 0 THEN Zero ELSE p.map[src(k)]]),
           !.age_map = Array([k \in 1..(nw * nh) |->
                      IF src(k) = 0 THEN 0 ELSE p.age_map[src(k)]]),
           !.segment = Array([k \in 1..(nw * nh) |->
                      IF src(k) = 0 THEN UNSET ELSE p.segment[src(k)]]),
           !.seg_data = shiftSegments(p.seg_data, g.lft, g.top)]

\* Lines 883-894: the age blend and the mass update at raster index i.
storeCrust(p, i, z, t) ==
    LET h == At(p.map, i)
        a == At(p.age_map, i)
        t1 == IF RPos(h)
              THEN RTrunc(RDiv(RAdd(RMul(h, FromInt(a)), RMul(z, FromInt(t))),
                               RAdd(h, z)))
              ELSE t
    IN  [p EXCEPT
           !.age_map = Put(@, i, IF RPos(z) THEN t1 ELSE a),
           !.mass = RAdd(RSub(@, h), z),
           !.map = Put(@, i, z)]

\* Lines 877-880 and on: the cell is stored in the grown plate q.
storeGrown(q, x, y, z, t) ==
    With(getMapIndex(q, x, y), LAMBDA r :
        IF r.index < q.width * q.height
        THEN storeCrust(q, r.index, z, t)
        ELSE [q EXCEPT !.ok = FALSE])             \* assert, line 880

\* Lines 788-881: the world cell (x, y) is outside the raster.
extend(p, x, y, z, t) ==
    IF ~RPos(z) THEN [p EXCEPT !.ok = FALSE]      \* assert(z>0)
    ELSE With(growth(p, x, y), LAMBDA g :
        IF g.lft + g.rgt + g.top + g.btm = 0
        THEN [p EXCEPT !.ok = FALSE]              \* assert, line 833
        ELSE With(grow(p, g), LAMBDA q : storeGrown(q, x, y, z, t)))

\* z clamped at 0 (lines 780-782)
setClamped(p, x, y, z, t) ==
    With(getMapIndex(p, x, y), LAMBDA r :
        IF r.index < p.width * p.height
        THEN storeCrust(p, r.index, z, t)
        ELSE extend(p, x % WorldW, y % WorldH, z, t))

setCrust(p, x, y, z, t) ==
    setClamped(p, x, y, IF RLt(z, Zero) THEN Zero ELSE z, t)

(***************************************************************************)
(* Segmentation: plate::createSegment, a scanline flood fill.              *)
(* A continent descriptor is [x0, x1, y0, y1, area, coll_count]            *)
(* (left, right, top, bottom of its box in plate-local coordinates).       *)
(***************************************************************************)
CONT_BASE == FromInt(1)

Continental(p, i) == RLe(CONT_BASE, At(p.map, i))

\* Rectangle::enlarge_to_contain
enlarge_to_contain(sd, x, y) ==
    [sd EXCEPT
       !.y0 = IF y < @ THEN y ELSE @,
       !.y1 = IF y < sd.y0 THEN @ ELSE IF y > @ THEN y ELSE @,
       !.x0 = IF x < @ THEN x ELSE @,
       !.x1 = IF x < sd.x0 THEN @ ELSE IF x > @ THEN x ELSE @]

\* Lines 982-996: cut the done spans of the line out of [start, end].
RECURSIVE ReduceDone(_, _, _, _)
ReduceDone(done, j, start, end) ==
    IF j >= Len(done) THEN <<start, end>>
    ELSE LET d0 == done[j + 1]
             d1 == done[j + 2]
             s1 == IF U(start) >= d0 /\ U(start) <= d1 THEN d1 + 1 ELSE start
             e1 == IF U(end) >= d0 /\ U(end) <= d1 THEN d0 - 1 ELSE end
         IN  ReduceDone(done, j + 2, s1, e1)

\* Lines 973-1003: pop spans until one is left unscanned or none remain.
\* An end that wrapped below zero turns the span into the empty (-1, end - 1).
RECURSIVE PopSpan(_, _, _)
PopSpan(todo, done, width) ==
    With(ReduceDone(done, 0, todo[Len(todo) - 1], todo[Len(todo)]), LAMBDA r :
    With(IF U(r[2]) >= width THEN <<-1, r[2] - 1>> ELSE r, LAMBDA se :
        IF U(se[1]) > U(se[2]) /\ Len(todo) > 2
        THEN PopSpan(SubSeq(todo, 1, Len(todo) - 2), done, width)
        ELSE [todo |-> SubSeq(todo, 1, Len(todo) - 2),
              start |-> se[1], end |-> se[2]]))

\* Lines 1017-1024
RECURSIVE ExtendStart(_, _, _, _, _)
ExtendStart(p, seg, line_here, start, ID) ==
    IF /\ start > 0
       /\ At(seg, line_here + start - 1) > ID
       /\ Continental(p, line_here + start - 1)
    THEN ExtendStart(p, Put(seg, line_here + start - 1, ID), line_here,
                     start - 1, ID)
    ELSE [seg |-> seg, start |-> start]

\* Lines 1027-1035
RECURSIVE ExtendEnd(_, _, _, _, _)
ExtendEnd(p, seg, line_here, end, ID) ==
    IF /\ end < p.width - 1
       /\ At(seg, line_here + end + 1) > ID
       /\ Continental(p, line_here + end + 1)
    THEN ExtendEnd(p, Put(seg, line_here + end + 1, ID), line_here,
                   end + 1, ID)
    ELSE [seg |-> seg, end |-> end]

\* The inner while of lines 1079-1086: the run that goes on from cell j.
RECURSIVE RunEnd(_, _, _, _, _)
RunEnd(p, seg, base, j, ID) ==
    IF j < p.width /\ At(seg, base + j) > ID /\ Continental(p, base + j)
    THEN RunEnd(p, Put(seg, base + j, ID), base, j + 1, ID)
    ELSE [seg |-> seg, j |-> j]

\* Lines 1070-1093 (and 1096-1119): scan row over [j, end], queueing its runs.
\* st = [seg, todo, done, data, lp]; todo and done are indexed by line + 1.
RECURSIVE ScanRow(_, _, _, _, _, _)
ScanRow(p, st, row, j, end, ID) ==
    IF j > end THEN st
    ELSE IF At(st.seg, row * p.width + j) > ID /\ Continental(p, row * p.width + j)
    THEN With(RunEnd(p, Put(st.seg, row * p.width + j, ID), row * p.width,
                     j + 1, ID),
              LAMBDA r : ScanRow(p, [st EXCEPT !.seg = r.seg,
                                               !.todo[row + 1] = @ \o <<j, r.j - 1>>],
                                 row, r.j + 1, end, ID))
    ELSE ScanRow(p, st, row, j + 1, end, ID)

\* No wrap around the left edge.
WrapLeftNever(p, st, line, start, ID) == st

\* Lines 1037-1047
WrapLeft(p, st, line, start, ID) ==
    IF /\ p.width = WorldW /\ start = 0
       /\ At(st.seg, line * p.width + p.width - 1) > ID
       /\ Continental(p, line * p.width + p.width - 1)
    THEN [st EXCEPT !.seg = Put(@, line * p.width + p.width - 1, ID),
                    !.todo[line + 1] = @ \o <<p.width - 1, p.width - 1>>]
    ELSE st

\* Lines 1049-1059
WrapRight(p, st, line, end, ID) ==
    IF /\ p.width = WorldW /\ end = p.width - 1
       /\ At(st.seg, line * p.width) > ID
       /\ Continental(p, line * p.width)
    THEN [st EXCEPT !.seg = Put(@, line * p.width, ID),
                    !.todo[line + 1] = @ \o <<0, 0>>]
    ELSE st

\* Lines 1061-1067, 1121-1123: the span [start, end] of line is accounted.
Account(st, line, start, end) ==
    [st EXCEPT
       !.data.area = @ + 1 + end - start,
       !.data.y0 = IF line < @ THEN line ELSE @,
       !.data.y1 = IF line > @ THEN line ELSE @,
       !.data.x0 = IF start < @ THEN start ELSE @,
       !.data.x1 = IF end > @ THEN end ELSE @,
       !.done[line + 1] = @ \o <<start, end>>,
       !.lp = @ + 1]

\* Lines 1069-1093
ScanAbove(p, st, line, start, end, ID) ==
    IF line > 0 \/ p.height = WorldH
    THEN ScanRow(p, st, IF line > 0 THEN line - 1 ELSE p.height - 1,
                 start, end, ID)
    ELSE st

\* Lines 1095-1119
ScanBelow(p, st, line, start, end, ID) ==
    IF line < p.height - 1 \/ p.height = WorldH
    THEN ScanRow(p, st, IF line < p.height - 1 THEN line + 1 ELSE 0,
                 start, end, ID)
    ELSE st

\* Lines 1037-1123 for the extended span [start, end] of line.
ScanSpan(p, st, line, start, end, ID) ==
    Account(ScanBelow(p,
                ScanAbove(p,
                    WrapRight(p, WrapLeft(p, st, line, start, ID), line, end, ID),
                    line, start, end, ID),
                line, start, end, ID),
            line, start, end)

\* Lines 1016-1035: the unscanned span ps of line is extended both ways.
ExtendSpan(p, st, line, ps, ID) ==
    With(ExtendStart(p, st.seg, line * p.width, ps.start, ID), LAMBDA xs :
    With(ExtendEnd(p, xs.seg, line * p.width, ps.end, ID), LAMBDA xe :
        ScanSpan(p, [st EXCEPT !.seg = xe.seg], line, xs.start, xe.end, ID)))

\* One pass of the body of the for loop of line 966 for one line.
ProcessLine(p, st, line, ID) ==
    IF Len(st.todo[line + 1]) = 0 THEN st
    ELSE With(PopSpan(st.todo[line + 1], st.done[line + 1], p.width), LAMBDA ps :
        IF U(ps.start) > U(ps.end)
        THEN [st EXCEPT !.todo[line + 1] = ps.todo]
        ELSE ExtendSpan(p, [st EXCEPT !.todo[line + 1] = ps.todo], line, ps, ID))

RECURSIVE ForLines(_, _, _, _)
ForLines(p, st, line, ID) ==
    IF line >= p.height THEN st
    ELSE ForLines(p, ProcessLine(p, st, line, ID), line + 1, ID)

\* The do-while of lines 963-1125.
RECURSIVE FillLoop(_, _, _)
FillLoop(p, st, ID) ==
    With(ForLines(p, [st EXCEPT !.lp = 0], 0, ID), LAMBDA st1 :
        IF st1.lp > 0 THEN FillLoop(p, st1, ID) ELSE st1)

\* Lines 923-940: the id of a segmented continental 4-neighbour, else ID.
nbourId(p, x, y, ID) ==
    LET o == y * p.width + x
        canGoLeft == x > 0 /\ Continental(p, o - 1)
        canGoRight == x < p.width - 1 /\ Continental(p, o + 1)
        canGoUp == y > 0 /\ Continental(p, o - p.width)
        canGoDown == y < p.height - 1 /\ Continental(p, o + p.width)
    IN  IF canGoLeft /\ At(p.segment, o - 1) < ID THEN At(p.segment, o - 1)
        ELSE IF canGoRight /\ At(p.segment, o + 1) < ID THEN At(p.segment, o + 1)
        ELSE IF canGoUp /\ At(p.segment, o - p.width) < ID
             THEN At(p.segment, o - p.width)
        ELSE IF canGoDown /\ At(p.segment, o + p.width) < ID
             THEN At(p.segment, o + p.width)
        ELSE ID

\* The flood fill proper (lines 952-1131) from the unsegmented cell (x, y).
floodFill(p, x, y, ID) ==
    With(FillLoop(p,
            [seg |-> Put(p.segment, y * p.width + x, ID),
             todo |-> Array([l \in 1..p.height |->
                               IF l = y + 1 THEN <<x, x>> ELSE <<>>]),
             done |-> Array([l \in 1..p.height |-> <<>>]),
             data |-> [x0 |-> x, x1 |-> x, y0 |-> y, y1 |-> y,
                       area |-> 0, coll_count |-> 0],
             lp |-> 0],
            ID),
         LAMBDA st : [p EXCEPT !.segment = st.seg,
                               !.seg_data = Append(@, st.data)])

\* Lines 942-950: the cell joins the continent nb of a neighbour.
joinNeighbour(p, x, y, nb) ==
    [p EXCEPT
       !.segment = Put(@, y * p.width + x, nb),
       !.seg_data[nb + 1] = enlarge_to_contain([@ EXCEPT !.area = @ + 1], x, y)]

\* plate::createSegment: the plate afterwards and the id returned.
createSegment(p, x, y) ==
    IF At(p.segment, y * p.width + x) < Len(p.seg_data)
    THEN [plate |-> p, id |-> At(p.segment, y * p.width + x)]
    ELSE With(nbourId(p, x, y, Len(p.seg_data)), LAMBDA nb :
        IF nb < Len(p.seg_data)
        THEN [plate |-> joinNeighbour(p, x, y, nb), id |-> nb]
        ELSE [plate |-> floodFill(p, x, y, Len(p.seg_data)),
              id |-> Len(p.seg_data)])

\* plate::getContinentAt (world coordinates inside the plate).
getContinentAt(p, x, y) ==
    With(getMapIndex(p, x, y), LAMBDA r :
        IF At(p.segment, r.index) >= Len(p.seg_data)
        THEN createSegment(p, r.x, r.y)
        ELSE [plate |-> p, id |-> At(p.segment, r.index)])

\* addCollision without line 103.
addCollisionUncounted(p, wx, wy) ==
    With(getContinentAt(p, wx, wy), LAMBDA c :
        [plate |-> c.plate, ret |-> c.plate.seg_data[c.id + 1].area])

\* plate::addCollision: the plate afterwards and the area returned.
addCollision(p, wx, wy) ==
    With(getContinentAt(p, wx, wy), LAMBDA c :
        [plate |-> [c.plate EXCEPT !.seg_data[c.id + 1].coll_count = @ + 1],
         ret |-> c.plate.seg_data[c.id + 1].area])

\* plate::getCollisionInfo: the plate afterwards (the continent may be
\* created by the lookup), the count and the ratio.
getCollisionInfo(p, wx, wy) ==
    With(getContinentAt(p, wx, wy), LAMBDA c :
        [plate |-> c.plate,
         count |-> c.plate.seg_data[c.id + 1].coll_count,
         ratio |-> Rat(c.plate.seg_data[c.id + 1].coll_count,
                       1 + c.plate.seg_data[c.id + 1].area)])

\* plate::selectCollisionSegment
selectCollisionSegment(p, x, y) == At(p.segment, getMapIndex(p, x, y).index)

\* Lines 112-118: the cell of plate q at (x, y) is given to activeContinent.
assignCell(q, x, y, activeContinent) ==
    With(getMapIndex(q, x, y), LAMBDA r :
        IF ~q.ok THEN q
        ELSE [q EXCEPT
                !.segment = Put(@, r.index, activeContinent),
                !.seg_data[activeContinent + 1] =
                    enlarge_to_contain([@ EXCEPT !.area = @ + 1], r.x, r.y)])

\* The crust overwritten by z instead of raised by z.
addCrustByCollisionOverwrite(p, x, y, z, t, activeContinent) ==
    With(setCrust(p, x, y, z, t), LAMBDA q :
        assignCell(q, x, y, activeContinent))

\* plate::addCrustByCollision
addCrustByCollision(p, x, y, z, t, activeContinent) ==
    With(setCrust(p, x, y, RAdd(getCrust(p, x, y), z), t), LAMBDA q :
        assignCell(q, x, y, activeContinent))

\* Lines 216-230: the cells of the box of seg_id from (x, y) on, row-major.
\* s is the source plate, d the destination plate.
RECURSIVE aggregateCells(_, _, _, _, _)
aggregateCells(s, d, c, x, y) ==
    LET sd == s.seg_data[c.seg_id + 1]
        i == y * s.width + x
    IN  IF y > sd.y1 THEN [src |-> s, dst |-> d]
        ELSE IF x > sd.x1 THEN aggregateCells(s, d, c, sd.x0, y + 1)
        ELSE IF At(s.segment, i) = c.seg_id /\ RPos(At(s.map, i)) /\ d.ok
        THEN With(addCrustByCollision(d, c.wx + x - c.lx, c.wy + y - c.ly,
                                      At(s.map, i), At(s.age_map, i),
                                      c.activeContinent), LAMBDA d1 :
             With([s EXCEPT !.mass = RSub(@, At(s.map, i)),
                            !.map = Put(@, i, Zero)], LAMBDA s1 :
                aggregateCells(s1, d1, c, x + 1, y)))
        ELSE aggregateCells(s, d, c, x + 1, y)

\* Lines 202-233: the continent seg_id at local (lx, ly) is moved to d.
transfer(s, d, wx, wy, lx, ly, seg_id) ==
    With(aggregateCells(s, d,
            [seg_id |-> seg_id,
             activeContinent |-> selectCollisionSegment(d, wx, wy),
             wx |-> wx + WorldW, wy |-> wy + WorldH,
             lx |-> lx, ly |-> ly],
            s.seg_data[seg_id + 1].x0, s.seg_data[seg_id + 1].y0),
         LAMBDA a : [src |-> [a.src EXCEPT !.seg_data[seg_id + 1].area = 0],
                     dst |-> a.dst,
                     ret |-> RSub(s.mass, a.src.mass)])

\* plate::aggregateCrust: both plates afterwards and the mass returned.
aggregateCrust(s, d, wx, wy) ==
    With(getMapIndex(s, wx, wy), LAMBDA r :
        IF s.seg_data[At(s.segment, r.index) + 1].area = 0
        THEN [src |-> s, dst |-> d, ret |-> Zero]
        ELSE transfer(s, d, wx, wy, r.x, r.y, At(s.segment, r.index)))

\* plate::resetSegments
resetSegments(p) ==
    [p EXCEPT !.segment = Array([k \in 1..Len(@) |-> UNSET]),
              !.seg_data = <<>>]

(***************************************************************************)
(* Subduction: plate::addCrustBySubduction.                                *)
(* dx, dy are in units of 1/Scale; offset is the cubed random number times *)
(* its random sign, in the same units.  Converting a float below zero to   *)
(* size_t is undefined: wraps says whether the build wraps it (modulo      *)
(* 2^64, kept here as the negative number) or saturates it to 0.           *)
(***************************************************************************)
\* (size_t)((int)c + d) for the fixed-point sum f = c * Scale + d
toSizeT(f, wraps) ==
    IF f >= 0 THEN f \div Scale
    ELSE IF -f < Scale THEN 0
    ELSE IF wraps THEN -((-f) \div Scale) ELSE 0

\* 2^64 % m
Pow64Mod(m) ==
    LET a == 65536 % m
        b == (a * a) % m
    IN  (b * b) % m

\* v % m for a size_t v that may have wrapped below zero
UMod(v, m) == IF v >= 0 THEN v % m ELSE (Pow64Mod(m) + (v % m)) % m

\* Lines 164-172: z is added at raster index when crust exists there.
deposit(p, index, z, t) ==
    IF index >= 0 /\ index < p.width * p.height /\ RPos(At(p.map, index))
    THEN LET h == At(p.map, index)
             a == At(p.age_map, index)
             t1 == RTrunc(RDiv(RAdd(RMul(h, FromInt(a)), RMul(z, FromInt(t))),
                               RAdd(h, z)))
         IN  [p EXCEPT
                !.age_map = Put(@, index, IF RPos(z) THEN t1 ELSE 0),
                !.map = Put(@, index, RAdd(h, z)),
                !.mass = RAdd(@, z)]
    ELSE p

\* Lines 157-162: the target (x, y) after the modulo of a plate that spans
\* the world.
targetCell(p, x, y) ==
    <<IF p.width = WorldW THEN UMod(x, p.width) ELSE x,
      IF p.height = WorldH THEN UMod(y, p.height) ELSE y>>

\* Line 164: index = y * width + x
targetIndex(p, x, y) ==
    targetCell(p, x, y)[2] * p.width + targetCell(p, x, y)[1]

\* Lines 145-152: the fixed-point offsets from the hint (dx, dy).
subOffset(p, dx, dy, offset) ==
    LET dot == p.vx * dx + p.vy * dy
    IN  <<10 * (IF dot > 0 THEN dx - p.vx ELSE dx) + 3 * offset,
          10 * (IF dot > 0 THEN dy - p.vy ELSE dy) + 3 * offset>>

\* Lines 138-162: the local coordinates of the cell the crust is meant for.
subTarget(p, x, y, dx, dy, offset, wraps) ==
    With(getMapIndex(p, x, y), LAMBDA r :
    With(subOffset(p, dx, dy, offset), LAMBDA d :
        targetCell(p, toSizeT(r.x * Scale + d[1], wraps),
                      toSizeT(r.y * Scale + d[2], wraps))))

addCrustBySubduction(p, x, y, z, t, dx, dy, offset, wraps) ==
    With(getMapIndex(p, x, y), LAMBDA r :
    With(subOffset(p, dx, dy, offset), LAMBDA d :
        deposit(p,
                targetIndex(p, toSizeT(r.x * Scale + d[1], wraps),
                               toSizeT(r.y * Scale + d[2], wraps)),
                z, t)))

(***************************************************************************)
(* Kinematics: applyFriction, collide, move.                               *)
(***************************************************************************)
RECURSIVE ISqrtFrom(_, _)
ISqrtFrom(n, k) == IF (k + 1) * (k + 1) > n THEN k ELSE ISqrtFrom(n, k + 1)
\* floor of the square root
ISqrt(n) == ISqrtFrom(n, 0)

\* a rational as a fixed-point number of units 1/Scale (rounded down)
ToFixed(a) == (a[1] * Scale) \div a[2]

\* The speed lowered without the limit of line 248.
applyFrictionUnclamped(p, deformed_mass) ==
    IF RPos(p.mass)
    THEN [p EXCEPT !.velocity =
             @ - ToFixed(RDiv(RMul(FromInt(2), deformed_mass), p.mass))]
    ELSE p

\* plate::applyFriction
applyFriction(p, deformed_mass) ==
    IF RPos(p.mass)
    THEN LET dec == ToFixed(RDiv(RMul(FromInt(2), deformed_mass), p.mass))
             vel_dec == IF dec < p.velocity THEN dec ELSE p.velocity
         IN  [p EXCEPT !.velocity = @ - vel_dec]
    ELSE p

\* Lines 289-294: the contact normal before it is normalised.
contactNormal(a, b, wx, wy) ==
    LET ra == getMapIndex(a, wx, wy)
        rb == getMapIndex(b, wx, wy)
    IN  <<(ra.x - RTrunc(a.cx)) - (rb.x - RTrunc(b.cx)),
          (ra.y - RTrunc(a.cy)) - (rb.y - RTrunc(b.cy))>>

\* Lines 301-313: the relative velocity along the unit normal.
relDotN(a, b, n) ==
    LET n_len == ISqrt((n[1] * n[1] + n[2] * n[2]) * Scale * Scale)
    IN  RAdd(RMul(Rat(a.vx - b.vx, Scale), Rat(n[1] * Scale, n_len)),
             RMul(Rat(a.vy - b.vy, Scale), Rat(n[2] * Scale, n_len)))

\* The impulses with collide's early return of lines 315-317 left out.
impulseAlways(a, b, wx, wy, coll_mass) ==
    LET n == contactNormal(a, b, wx, wy)
    IN  IF n[1] * n[1] + n[2] * n[2] <= 0 THEN <<Zero, Zero, Zero, Zero>>
        ELSE
        LET n_len == ISqrt((n[1] * n[1] + n[2] * n[2]) * Scale * Scale)
            nx == Rat(n[1] * Scale, n_len)
            ny == Rat(n[2] * Scale, n_len)
            denom == RMul(RAdd(RMul(nx, nx), RMul(ny, ny)),
                          RAdd(RDiv(FromInt(1), a.mass), RDiv(FromInt(1), coll_mass)))
            J == RDiv(RSub(Zero, relDotN(a, b, n)), denom)
        IN  <<RDiv(RMul(nx, J), a.mass), RDiv(RMul(ny, J), a.mass),
              RSub(Zero, RDiv(RMul(nx, J), RAdd(coll_mass, b.mass))),
              RSub(Zero, RDiv(RMul(ny, J), RAdd(coll_mass, b.mass)))>>

\* Lines 289-332: what collide adds to (dx, dy) of this plate and to
\* (dx, dy) of the other plate, as exact values.
impulse(a, b, wx, wy, coll_mass) ==
    LET n == contactNormal(a, b, wx, wy)
    IN  IF n[1] * n[1] + n[2] * n[2] <= 0 THEN <<Zero, Zero, Zero, Zero>>
        ELSE IF ~RPos(relDotN(a, b, n)) THEN <<Zero, Zero, Zero, Zero>>
        ELSE
        LET n_len == ISqrt((n[1] * n[1] + n[2] * n[2]) * Scale * Scale)
            nx == Rat(n[1] * Scale, n_len)
            ny == Rat(n[2] * Scale, n_len)
            denom == RMul(RAdd(RMul(nx, nx), RMul(ny, ny)),
                          RAdd(RDiv(FromInt(1), a.mass), RDiv(FromInt(1), coll_mass)))
            J == RDiv(RSub(Zero, relDotN(a, b, n)), denom)
        IN  <<RDiv(RMul(nx, J), a.mass), RDiv(RMul(ny, J), a.mass),
              RSub(Zero, RDiv(RMul(nx, J), RAdd(coll_mass, b.mass))),
              RSub(Zero, RDiv(RMul(ny, J), RAdd(coll_mass, b.mass)))>>

\* plate::collide: both plates afterwards (a is this, b is the other plate).
collide(a, b, wx, wy, coll_mass) ==
    IF \/ getMapIndex(a, wx, wy).index >= a.width * a.height
       \/ getMapIndex(b, wx, wy).index >= b.width * b.height
    THEN [a |-> [a EXCEPT !.ok = FALSE], b |-> b]      \* assert, line 286
    ELSE With(impulse(a, b, wx, wy, coll_mass), LAMBDA d :
            [a |-> [a EXCEPT !.dx = @ + ToFixed(d[1]), !.dy = @ + ToFixed(d[2])],
             b |-> [b EXCEPT !.dx = @ + ToFixed(d[3]), !.dy = @ + ToFixed(d[4])]])

\* WorldDimension::contains for the fixed-point origin
worldContains(left, top) ==
    left >= 0 /\ left < WorldW * Scale /\ top >= 0 /\ top < WorldH * Scale

\* Lines 755-757 and 759-761: one conditional step up, one down.
wrapOnce(v, side) ==
    LET v1 == IF v > 0 THEN v ELSE v + side * Scale
    IN  IF v1 < side * Scale THEN v1 ELSE v1 - side * Scale

\* Lines 730-736: the speed after absorbing the impulse.
newVelocity(p) ==
    LET vx1 == p.vx + p.dx
        vy1 == p.vy + p.dy
        len == ISqrt(vx1 * vx1 + vy1 * vy1)
        v1 == p.velocity + len - Scale
    IN  IF v1 > 0 THEN v1 ELSE 0

\* move without the clearing of lines 727-728.
moveKeepImpulse(p, rot) ==
    LET vel == newVelocity(p)
        left1 == wrapOnce(p.left + (rot[1] * vel) \div Scale, WorldW)
        top1 == wrapOnce(p.top + (rot[2] * vel) \div Scale, WorldH)
    IN  IF p.vx + p.dx = 0 /\ p.vy + p.dy = 0
        THEN [p EXCEPT !.velocity = vel, !.ok = FALSE]
        ELSE [p EXCEPT
                !.vx = rot[1], !.vy = rot[2],
                !.velocity = vel,
                !.left = left1, !.top = top1,
                !.ok = worldContains(p.left, p.top) /\ worldContains(left1, top1)]

\* plate::move.  rot is the unit direction that normalising and rotating
\* (vx + dx, vy + dy) by the cos/sin of lines 741-748 yields.
\* A direction of length 0 makes vx, vy and then left, top NaN, which the
\* assert of line 763 rejects.
move(p, rot) ==
    LET vel == newVelocity(p)
        left1 == wrapOnce(p.left + (rot[1] * vel) \div Scale, WorldW)
        top1 == wrapOnce(p.top + (rot[2] * vel) \div Scale, WorldH)
    IN  IF p.vx + p.dx = 0 /\ p.vy + p.dy = 0
        THEN [p EXCEPT !.dx = 0, !.dy = 0, !.velocity = vel, !.ok = FALSE]
        ELSE [p EXCEPT
                !.vx = rot[1], !.vy = rot[2], !.dx = 0, !.dy = 0,
                !.velocity = vel,
                !.left = left1, !.top = top1,
                !.ok = worldContains(p.left, p.top) /\ worldContains(left1, top1)]

(***************************************************************************)
(* Erosion: plate::calculateCrust and plate::erode.                        *)
(***************************************************************************)
\* The neighbour indices w, e, n, s of (x, y) and their heights, 0 when the
\* neighbour is out of the plate or not lower than the cell.
calculateCrust(p, x, y, index) ==
    LET w_mask == x > 0 \/ p.width = WorldW
        e_mask == x < p.width - 1 \/ p.width = WorldW
        n_mask == y > 0 \/ p.height = WorldH
        s_mask == y < p.height - 1 \/ p.height = WorldH
        w == y * p.width + (IF w_mask THEN (x - 1 + WorldW) % WorldW ELSE 0)
        e == y * p.width + (IF e_mask THEN (x + 1 + WorldW) % WorldW ELSE 0)
        n == (IF n_mask THEN (y - 1 + WorldH) % WorldH ELSE 0) * p.width + x
        s == (IF s_mask THEN (y + 1 + WorldH) % WorldH ELSE 0) * p.width + x
        here == At(p.map, index)
        crust(mask, i) == Times(At(p.map, i), mask /\ RLt(At(p.map, i), here))
    IN  [w |-> w, e |-> e, n |-> n, s |-> s,
         w_crust |-> crust(w_mask, w), e_crust |-> crust(e_mask, e),
         n_crust |-> crust(n_mask, n), s_crust |-> crust(s_mask, s)]

IsZero(a) == a[1] = 0 /\ a[2] # 0

\* Lines 456-477: is the cell at index a source of a river?
isTop(p, index, lower_bound) ==
    With(calculateCrust(p, index % p.width, index \div p.width, index), LAMBDA c :
        /\ ~RLt(At(p.map, index), lower_bound)
        /\ ~(\/ IsZero(c.w_crust) \/ IsZero(c.e_crust)    \* a product is 0
             \/ IsZero(c.n_crust) \/ IsZero(c.s_crust)))  \* iff a factor is

RECURSIVE findTops(_, _, _)
\* the tops among the cells below index n, in the order they are pushed
findTops(p, n, lower_bound) ==
    IF n = 0 THEN <<>>
    ELSE With(findTops(p, n - 1, lower_bound), LAMBDA rest :
            IF isTop(p, n - 1, lower_bound) THEN Append(rest, n - 1) ELSE rest)

\* Lines 510-527: the lowest of the four heights and the cell it belongs to.
lowestOf(p, index, w_crust, e_crust, n_crust, s_crust) ==
    With(IF RLt(e_crust, w_crust) THEN <<e_crust, index + 1>>
         ELSE <<w_crust, index - 1>>, LAMBDA l1 :
    With(IF RLt(n_crust, l1[1]) THEN <<n_crust, index - p.width>> ELSE l1,
         LAMBDA l2 :
         IF RLt(s_crust, l2[1]) THEN index + p.width ELSE l2[2]))

\* Lines 505-527: the cell the water of index flows to (may lie off the raster).
lowestDest(p, index, c) ==
    LET here == At(p.map, index)
        fill(v) == RAdd(v, Times(here, IsZero(v)))
    IN  lowestOf(p, index, fill(c.w_crust), fill(c.e_crust),
                 fill(c.n_crust), fill(c.s_crust))

\* flow without line 532: the sink is not marked.
flowUnmarked(r, size, index, dest, lower_bound) ==
    LET sink == dest >= 0 /\ dest < size /\ dest \notin r.isDone
    IN  [r EXCEPT
           !.sinks = IF sink THEN Append(@, dest) ELSE @,
           !.flows = Append(@, <<index, dest, sink>>),
           !.tmp = Put(@, index,
                       RSub(At(@, index),
                            RDiv(RSub(At(@, index), lower_bound), FromInt(5))))]

\* Lines 529-536: dest becomes a sink unless marked, index is lowered.
\* flows keeps, for every cell that got here, <<index, dest, pushed>>.
flow(r, size, index, dest, lower_bound) ==
    LET sink == dest >= 0 /\ dest < size /\ dest \notin r.isDone
    IN  [r EXCEPT
           !.sinks = IF sink THEN Append(@, dest) ELSE @,
           !.isDone = IF sink THEN @ \cup {dest} ELSE @,
           !.flows = Append(@, <<index, dest, sink>>),
           !.tmp = Put(@, index,
                       RSub(At(@, index),
                            RDiv(RSub(At(@, index), lower_bound), FromInt(5))))]

\* Lines 491-536 for the popped cell index.
visit(p, r, index, lower_bound) ==
    With(calculateCrust(p, index % p.width, index \div p.width, index), LAMBDA c :
        IF RLt(At(p.map, index), lower_bound) THEN r
        ELSE IF IsZero(RAdd(RAdd(c.w_crust, c.e_crust), RAdd(c.n_crust, c.s_crust)))
        THEN r
        ELSE flow(r, p.width * p.height, index, lowestDest(p, index, c),
                  lower_bound))

\* Lines 483-544.  r = [sources, sinks, isDone, tmp, pops]; sources and sinks
\* are stacks (the last element is popped first), isDone the set of cells
\* marked, pops the number of cells popped so far.
RECURSIVE riverFlow(_, _, _)
riverFlow(p, r, lower_bound) ==
    IF Len(r.sources) = 0
    THEN IF Len(r.sinks) = 0 THEN r
         ELSE riverFlow(p, [r EXCEPT !.sources = r.sinks, !.sinks = <<>>],
                        lower_bound)
    ELSE riverFlow(p,
            visit(p, [r EXCEPT !.sources = SubSeq(@, 1, Len(@) - 1),
                               !.pops = @ + 1],
                  r.sources[Len(r.sources)], lower_bound),
            lower_bound)

\* Phase 1 of erode: the state of the worklist when both lists are empty.
erodePhase1(p, lower_bound) ==
    riverFlow(p, [sources |-> findTops(p, p.width * p.height, lower_bound),
                  sinks |-> <<>>, isDone |-> {}, tmp |-> p.map, pops |-> 0,
                  flows |-> <<>>],
              lower_bound)

\* What phase 1 did: the number of tops, the number of cells popped, the
\* flows, and the two lists when the loop of line 483 ends.
riverLog(p, lower_bound) ==
    With(erodePhase1(p, lower_bound), LAMBDA r :
        [tops |-> Len(findTops(p, p.width * p.height, lower_bound)),
         pops |-> r.pops, flows |-> r.flows,
         sources |-> r.sources, sinks |-> r.sinks])

\* Lines 549-553: alpha[i] is 0.2 times the random number drawn for cell i.
addNoise(tmp, alpha) ==
    Array([i \in 1..Len(tmp) |->
        RAdd(tmp[i], RSub(RDiv(tmp[i], FromInt(10)), RMul(alpha[i], tmp[i])))])

\* min_diff -= (min_diff - diff) * (diff < min_diff)
RMin(a, b) == RSub(a, Times(RSub(a, b), RLt(b, a)))

\* tmp[i] += v
addTo(t, i, v) == Put(t, i, RAdd(At(t, i), v))

\* v for each of the four neighbours that is a lower one (crust > 0)
toLower(t, c, vw, ve, vn, vs) ==
    addTo(addTo(addTo(addTo(t, c.w, Times(vw, RPos(c.w_crust))),
                      c.e, Times(ve, RPos(c.e_crust))),
                c.n, Times(vn, RPos(c.n_crust))),
          c.s, Times(vs, RPos(c.s_crust)))

\* Lines 622-659.  d = the four differences minus min_diff, of sum diff_sum.
spreadCase(tmp, index, c, d, min_diff, diff_sum, lower) ==
    IF RLt(diff_sum, min_diff)
    THEN With(RDiv(RSub(min_diff, diff_sum), FromInt(1 + lower)), LAMBDA rest :
            addTo(toLower(addTo(toLower(tmp, c, d[1], d[2], d[3], d[4]),
                                index, RSub(Zero, min_diff)),
                          c, rest, rest, rest, rest),
                  index, rest))
    ELSE With(RDiv(min_diff, diff_sum), LAMBDA unit :
            toLower(addTo(tmp, index, RSub(Zero, min_diff)), c,
                    RMul(unit, d[1]), RMul(unit, d[2]),
                    RMul(unit, d[3]), RMul(unit, d[4])))

\* Lines 612-617: the sum over the lower neighbours
lowerSum(c, d) ==
    RAdd(RAdd(Times(d[1], RPos(c.w_crust)), Times(d[2], RPos(c.e_crust))),
         RAdd(Times(d[3], RPos(c.n_crust)), Times(d[4], RPos(c.s_crust))))

\* Lines 637-638: the number of lower neighbours
lowerCount(c) ==
    (IF RPos(c.w_crust) THEN 1 ELSE 0) + (IF RPos(c.e_crust) THEN 1 ELSE 0)
    + (IF RPos(c.n_crust) THEN 1 ELSE 0) + (IF RPos(c.s_crust) THEN 1 ELSE 0)

\* Lines 602-659.  diffs = the height differences to w, e, n, s.
spreadDiffs(tmp, index, c, diffs) ==
    With(RMin(RMin(RMin(diffs[1], diffs[2]), diffs[3]), diffs[4]),
         LAMBDA min_diff :
    With(<<RSub(diffs[1], min_diff), RSub(diffs[2], min_diff),
           RSub(diffs[3], min_diff), RSub(diffs[4], min_diff)>>, LAMBDA d :
        spreadCase(tmp, index, c, d, min_diff, lowerSum(c, d), lowerCount(c))))

\* Lines 571-659 for the cell at index: tmp with its crust spread out.
spread(p, tmp, index, lower_bound) ==
    With(calculateCrust(p, index % p.width, index \div p.width, index), LAMBDA c :
        IF RLt(At(p.map, index), lower_bound) THEN tmp
        ELSE IF IsZero(RAdd(RAdd(c.w_crust, c.e_crust), RAdd(c.n_crust, c.s_crust)))
        THEN tmp
        ELSE spreadDiffs(tmp, index, c,
                <<RSub(At(p.map, index), c.w_crust),
                  RSub(At(p.map, index), c.e_crust),
                  RSub(At(p.map, index), c.n_crust),
                  RSub(At(p.map, index), c.s_crust)>>))

RECURSIVE spreadOver(_, _, _, _, _)
\* the loop of lines 560-660 over the cells lo..hi in their order, by halves
spreadOver(p, tmp, lo, hi, lower_bound) ==
    IF lo > hi THEN tmp
    ELSE IF lo = hi THEN spread(p, tmp, lo, lower_bound)
    ELSE With(spreadOver(p, tmp, lo, (lo + hi) \div 2, lower_bound), LAMBDA t :
            spreadOver(p, t, (lo + hi) \div 2 + 1, hi, lower_bound))

spreadAll(p, tmp, n, lower_bound) == spreadOver(p, tmp, 0, n - 1, lower_bound)

\* Lines 555-668: the noisy heights are committed and spread.
commit(p, noisy, lower_bound) ==
    With(RSum(noisy), LAMBDA mass :
    With(spreadAll([p EXCEPT !.map = noisy], noisy, Len(noisy), lower_bound),
         LAMBDA tmp :
        [p EXCEPT
           !.map = tmp,
           !.mass = mass,
           !.cx = IF RPos(mass) THEN RDiv(WSum(noisy, p.width, Len(noisy), TRUE), mass)
                  ELSE WSum(noisy, p.width, Len(noisy), TRUE),
           !.cy = IF RPos(mass) THEN RDiv(WSum(noisy, p.width, Len(noisy), FALSE), mass)
                  ELSE WSum(noisy, p.width, Len(noisy), FALSE)]))

\* plate::erode
erode(p, lower_bound, alpha) ==
    With(erodePhase1(p, lower_bound), LAMBDA r :
    With(addNoise(r.tmp, alpha), LAMBDA noisy :
        commit(p, noisy, lower_bound)))

(***************************************************************************)
(* Inputs.                                                                 *)
(***************************************************************************)
\* The unit directions that the fixed-point grid represents exactly.
Dirs == {d \in (-Scale..Scale) \X (-Scale..Scale) :
            d[1] * d[1] + d[2] * d[2] = Scale * Scale}

\* The directions along +x and +y.
AxisDirs == {<<Scale, 0>>, <<0, Scale>>}

SetPoints == {<<0, 0>>, <<1, 0>>, <<2, 0>>, <<1, 1>>}
SetHeights == {FromInt(0), FromInt(3)}
CollPoints == {<<0, 0>>, <<1, 0>>}
AddPoints == {<<1, 0>>, <<2, 0>>}
SubOffsets == {0, -Scale}
LowerBounds == {Zero}
Noises == {Rat(1, 5)}
DeformedMasses == {Zero, FromInt(1), FromInt(10)}
CollMasses == {FromInt(1), FromInt(30)}

\* Plate A: two continental cells at world (0,0), (1,0), heading along +x.
\* Plate B: one continental cell at world (1,0), heading along bDir.
InitPlates(bDir) ==
    [id \in PlateIds |->
        IF id = "A"
        THEN construct(<<FromInt(2), FromInt(1)>>, 2, 1, 0, 0, 3, <<Scale, 0>>)
        ELSE construct(<<FromInt(1)>>, 1, 1, 1, 0, 1, bDir)]

Constructed(bDir) ==
    /\ plates = InitPlates(bDir)
    /\ last = [op |-> "construct", id |-> "A", args |-> <<>>, ret |-> Zero,
               pre |-> InitPlates(bDir), gone |-> {}]
    /\ gone = {}
    /\ steps = 0

Init == Constructed(<<0, Scale>>)

AllOk == \A id \in PlateIds : plates[id].ok

Inside(p, x, y) == getMapIndex(p, x, y).index < p.width * p.height

\* The cell is inside the plate and carries the id of a segTable entry.
HasSegment(p, x, y) ==
    /\ Inside(p, x, y)
    /\ At(p.segment, getMapIndex(p, x, y).index) < Len(p.seg_data)

Did(op, id, args, ret) ==
    /\ last' = [op |-> op, id |-> id, args |-> args, ret |-> ret,
                pre |-> plates, gone |-> gone]
    /\ gone' = IF op = "aggregateCrust"
               THEN gone \cup {<<id, selectCollisionSegment(plates[id],
                                                            args[2], args[3])>>}
               ELSE IF op = "resetSegments" THEN {g \in gone : g[1] # id}
               ELSE gone
    /\ steps' = steps + 1

(***************************************************************************)
(* The operations.                                                         *)
(***************************************************************************)
SetCrust(id, x, y, z, t) ==
    /\ AllOk
    /\ plates' = [plates EXCEPT ![id] = setCrust(@, x, y, z, t)]
    /\ Did("setCrust", id, <<x, y, z, t>>, Zero)

\* Precondition of the interface: the cell is inside the plate.
AddCollision(id, wx, wy) ==
    /\ AllOk
    /\ Inside(plates[id], wx, wy)
    /\ LET r == addCollision(plates[id], wx, wy)
       IN  /\ plates' = [plates EXCEPT ![id] = r.plate]
           /\ Did("addCollision", id, <<wx, wy>>, FromInt(r.ret))

GetCollisionInfo(id, wx, wy) ==
    /\ AllOk
    /\ Inside(plates[id], wx, wy)
    /\ LET r == getCollisionInfo(plates[id], wx, wy)
       IN  /\ plates' = [plates EXCEPT ![id] = r.plate]
           /\ Did("getCollisionInfo", id, <<wx, wy>>, <<r.count, r.ratio>>)

\* continentId indexes seg_data: it is an entry of the table.
AddCrustByCollision(id, x, y, z, t, continentId) ==
    /\ AllOk
    /\ continentId < Len(plates[id].seg_data)
    /\ plates' = [plates EXCEPT
                    ![id] = addCrustByCollision(@, x, y, z, t, continentId)]
    /\ Did("addCrustByCollision", id, <<x, y, z, t, continentId>>, Zero)

AddCrustBySubduction(id, x, y, z, t, dx, dy, offset, wraps) ==
    /\ AllOk
    /\ Inside(plates[id], x, y)
    /\ plates' = [plates EXCEPT
                    ![id] = addCrustBySubduction(@, x, y, z, t, dx, dy, offset, wraps)]
    /\ Did("addCrustBySubduction", id, <<x, y, z, t, dx, dy, offset, wraps>>,
           subTarget(plates[id], x, y, dx, dy, offset, wraps))

\* Both plates carry a continent at (wx, wy), as after addCollision on both;
\* the destination is not read when the source continent is a tombstone.
AggregateCrust(id, other, wx, wy) ==
    /\ AllOk
    /\ id # other
    /\ HasSegment(plates[id], wx, wy)
    /\ \/ plates[id].seg_data[selectCollisionSegment(plates[id], wx, wy) + 1].area = 0
       \/ HasSegment(plates[other], wx, wy)
    /\ LET r == aggregateCrust(plates[id], plates[other], wx, wy)
       IN  /\ plates' = [plates EXCEPT ![id] = r.src, ![other] = r.dst]
           /\ Did("aggregateCrust", id, <<other, wx, wy>>, r.ret)

Erode(id, lower_bound, noise) ==
    /\ AllOk
    /\ plates' = [plates EXCEPT
                    ![id] = erode(@, lower_bound,
                                  Array([i \in 1..Len(@.map) |-> noise]))]
    /\ Did("erode", id, <<lower_bound, noise>>,
           riverLog(plates[id], lower_bound))

ResetSegments(id) ==
    /\ AllOk
    /\ plates' = [plates EXCEPT ![id] = resetSegments(@)]
    /\ Did("resetSegments", id, <<>>, Zero)

Move(id, rot) ==
    /\ AllOk
    /\ plates' = [plates EXCEPT ![id] = move(@, rot)]
    /\ Did("move", id, <<rot>>, Zero)

ApplyFriction(id, deformed_mass) ==
    /\ AllOk
    /\ plates' = [plates EXCEPT ![id] = applyFriction(@, deformed_mass)]
    /\ Did("applyFriction", id, <<deformed_mass>>, Zero)

\* Both plates have crust (1/mass is finite) and contain (wx, wy).
Collide(id, other, wx, wy, coll_mass) ==
    /\ AllOk
    /\ id # other
    /\ RPos(plates[id].mass) /\ RPos(plates[other].mass)
    /\ Inside(plates[id], wx, wy) /\ Inside(plates[other], wx, wy)
    /\ LET r == collide(plates[id], plates[other], wx, wy, coll_mass)
       IN  plates' = [plates EXCEPT ![id] = r.a, ![other] = r.b]
    /\ Did("collide", id, <<other, wx, wy, coll_mass>>,
           impulse(plates[id], plates[other], wx, wy, coll_mass))

(***************************************************************************)
(* Spec: the crust operations on two plates, in any order.                 *)
(***************************************************************************)
Next ==
    \/ \E id \in PlateIds, c \in SetPoints, z \in SetHeights :
         steps < MaxSteps /\ SetCrust(id, c[1], c[2], z, 5)
    \/ \E id \in PlateIds, c \in CollPoints :
         steps < MaxSteps /\ AddCollision(id, c[1], c[2])
    \/ \E id \in PlateIds, c \in AddPoints :
         steps < MaxSteps /\ AddCrustByCollision(id, c[1], c[2], FromInt(1), 7, 0)
    \/ \E id \in PlateIds, offset \in SubOffsets, wraps \in BOOLEAN :
         steps < MaxSteps
         /\ AddCrustBySubduction(id, 1, 0, FromInt(1), 9, 0, 0, offset, wraps)
    \/ \E id, other \in PlateIds :
         steps < MaxSteps /\ AggregateCrust(id, other, 1, 0)
    \/ \E id \in PlateIds, lb \in LowerBounds, noise \in Noises :
         steps < MaxSteps /\ Erode(id, lb, noise)
    \/ \E id \in PlateIds : steps < MaxSteps /\ ResetSegments(id)
    \/ \E id \in PlateIds, rot \in AxisDirs : steps < MaxSteps /\ Move(id, rot)
    \/ \E id \in PlateIds : steps < MaxSteps /\ ApplyFriction(id, FromInt(1))

Spec == Init /\ [][Next]_vars

(***************************************************************************)
(* SpecAgg: collisions and transfers of continents between the plates.     *)
(***************************************************************************)
NextAgg ==
    \/ \E id \in PlateIds : steps < MaxAggSteps /\ AddCollision(id, 1, 0)
    \/ \E id, other \in PlateIds :
         steps < MaxAggSteps /\ AggregateCrust(id, other, 1, 0)
    \/ \E id \in PlateIds :
         steps < MaxAggSteps /\ SetCrust(id, 1, 0, FromInt(3), 5)
    \/ \E id \in PlateIds :
         steps < MaxAggSteps /\ AddCrustByCollision(id, 1, 0, FromInt(1), 7, 0)

SpecAgg == Init /\ [][NextAgg]_vars

(***************************************************************************)
(* SpecKin: impulses, friction and motion.                                 *)
(***************************************************************************)
InitKin == \E bDir \in {<<0, Scale>>, <<-Scale, 0>>} : Constructed(bDir)

NextKin ==
    \/ \E id, other \in PlateIds, cm \in CollMasses :
         steps < MaxKinSteps /\ Collide(id, other, 1, 0, cm)
    \/ \E id \in PlateIds, rot \in Dirs : steps < MaxKinSteps /\ Move(id, rot)
    \/ \E id \in PlateIds, dm \in DeformedMasses :
         steps < MaxKinSteps /\ ApplyFriction(id, dm)

SpecKin == InitKin /\ [][NextKin]_vars

(***************************************************************************)
(* SpecE3: two plates of mass 10 and 100, A heading along +x and B along   *)
(* -y, in contact at world (1, 0) where the contact normal is (1, 0).      *)
(***************************************************************************)
E3Masses == {FromInt(10), FromInt(100)}

E3Plates ==
    [id \in PlateIds |->
        IF id = "A"
        THEN construct(<<FromInt(5), FromInt(5)>>, 2, 1, 0, 0, 3, <<Scale, 0>>)
        ELSE construct(<<FromInt(100)>>, 1, 1, 1, 0, 1, <<0, -Scale>>)]

InitE3 ==
    /\ plates = E3Plates
    /\ last = [op |-> "construct", id |-> "A", args |-> <<>>, ret |-> Zero,
               pre |-> E3Plates, gone |-> {}]
    /\ gone = {}
    /\ steps = 0

NextE3 ==
    \/ \E id, other \in PlateIds, cm \in E3Masses :
         steps < MaxKinSteps /\ Collide(id, other, 1, 0, cm)
    \/ \E id \in PlateIds, rot \in AxisDirs : steps < MaxKinSteps /\ Move(id, rot)
    \/ \E id \in PlateIds, dm \in DeformedMasses :
         steps < MaxKinSteps /\ ApplyFriction(id, dm)

SpecE3 == InitE3 /\ [][NextE3]_vars

(***************************************************************************)
(* SpecErode: erosion of two plates as high as the world.  Plate A has a   *)
(* cell that is higher than its four neighbours, plate B a single peak     *)
(* among empty cells.                                                      *)
(***************************************************************************)
MaxErodeSteps == 2
ErodeBounds == {FromInt(-30), Zero, FromInt(2)}
ErodeNoises == {Zero, Rat(1, 10), Rat(1, 5)}

\* the heights of plate A: the row <<1, 4, 2>> above rows <<1, 3, 1>>
ErodeRows == [i \in 1..(3 * WorldH) |->
                 IF i <= 3 THEN FromInt(<<1, 4, 2>>[i])
                 ELSE FromInt(<<1, 3, 1>>[((i - 1) % 3) + 1])]

\* the heights of the ridge: the row <<2, 5, 1, 5, 2>> above rows of 1
ErodeRidge == [i \in 1..(5 * WorldH) |->
                  IF i <= 5 THEN FromInt(<<2, 5, 1, 5, 2>>[i]) ELSE FromInt(1)]

\* plate B is the single peak of height 10 or the ridge
ErodeSeconds == {"peak", "ridge"}

ErodePlates(second) ==
    [id \in PlateIds |->
        IF id = "A"
        THEN construct(Array(ErodeRows), 3, WorldH, 0, 0, 3, <<Scale, 0>>)
        ELSE IF second = "peak"
        THEN construct(Array([i \in 1..(3 * WorldH) |->
                                 IF i = 2 THEN FromInt(10) ELSE Zero]),
                       3, WorldH, 4, 0, 1, <<0, Scale>>)
        ELSE construct(Array(ErodeRidge), 5, WorldH, 4, 0, 1, <<0, Scale>>)]

\* The rasters that SpecErode erodes hold whole numbers.
WholeHeights(p) == \A i \in 1..Len(p.map) : p.map[i][2] = 1

InitErode ==
    \E second \in ErodeSeconds :
        /\ plates = ErodePlates(second)
        /\ last = [op |-> "construct", id |-> "A", args |-> <<>>, ret |-> Zero,
                   pre |-> ErodePlates(second), gone |-> {}]
        /\ gone = {}
        /\ steps = 0

NextErode ==
    \/ \E id \in PlateIds, lb \in ErodeBounds, noise \in ErodeNoises :
         steps < MaxErodeSteps /\ WholeHeights(plates[id]) /\ Erode(id, lb, noise)
    \/ \E id \in PlateIds, x \in {0, 1} :
         steps < MaxErodeSteps /\ SetCrust(id, x, 0, FromInt(3), 5)

SpecErode == InitErode /\ [][NextErode]_vars

(***************************************************************************)
(* SpecSub: subduction onto a plate two cells wide and as high as the      *)
(* world, with crust in its second row.                                    *)
(***************************************************************************)
MaxSubSteps == 3
SubPoints == {<<0, 1>>, <<1, 0>>}
SubHints == {<<0, 0>>, <<7, 0>>}
SubDraws == {0, -1, -Scale}

SubPlates ==
    [id \in PlateIds |->
        IF id = "A"
        THEN construct(Array([i \in 1..(2 * WorldH) |->
                                 IF i = 1 THEN FromInt(2)
                                 ELSE IF i = 2 THEN FromInt(1)
                                 ELSE IF i % 2 = 1 THEN Zero ELSE FromInt(3)]),
                       2, WorldH, 0, 0, 3, <<Scale, 0>>)
        ELSE construct(<<FromInt(1)>>, 1, 1, 1, 0, 1, <<0, Scale>>)]

InitSub ==
    /\ plates = SubPlates
    /\ last = [op |-> "construct", id |-> "A", args |-> <<>>, ret |-> Zero,
               pre |-> SubPlates, gone |-> {}]
    /\ gone = {}
    /\ steps = 0

NextSub ==
    \/ \E id \in PlateIds, c \in SubPoints, hint \in SubHints,
          offset \in SubDraws, wraps \in BOOLEAN :
         steps < MaxSubSteps
         /\ AddCrustBySubduction(id, c[1], c[2], FromInt(1), 9,
                                 hint[1], hint[2], offset, wraps)
    \/ \E id \in PlateIds, c \in SetPoints :
         steps < MaxSubSteps /\ SetCrust(id, c[1], c[2], FromInt(3), 5)

SpecSub == InitSub /\ [][NextSub]_vars

(***************************************************************************)
(* SpecSeg: segmentation of fresh rasters.  Plate A is as large as the     *)
(* world ("world"), three cells wide and as high as the world ("column"),  *)
(* or three cells wide and one row lower than the world ("patch"); its     *)
(* continental cells are any set of cells of its columns 0, 1 and          *)
(* width - 1, the other cells lie below CONT_BASE.  The operations are     *)
(* those of plate A.                                                       *)
(***************************************************************************)
MaxSegSteps == 2
SegShapes == {"world", "column", "patch"}
SegPoints == {<<0, 0>>, <<1, 0>>, <<WorldW - 1, WorldH - 1>>}
SegPatterns == SUBSET ((0..2) \X (0..(WorldH - 1)))

SegRaster(w, h, land) ==
    Array([k \in 1..(w * h) |->
              LET x == (k - 1) % w
                  y == (k - 1) \div w
              IN  IF <<(IF x = w - 1 THEN 2 ELSE x), y>> \in land
                  THEN CONT_BASE ELSE Rat(1, 2)])

SegPlates(shape, land) ==
    [id \in PlateIds |->
        IF id = "A"
        THEN IF shape = "world"
             THEN construct(SegRaster(WorldW, WorldH, land), WorldW, WorldH,
                            0, 0, 3, <<Scale, 0>>)
             ELSE IF shape = "column"
             THEN construct(SegRaster(3, WorldH, land), 3, WorldH,
                            0, 0, 3, <<Scale, 0>>)
             ELSE construct(SegRaster(3, WorldH - 1, land), 3, WorldH - 1,
                            0, 0, 3, <<Scale, 0>>)
        ELSE construct(<<FromInt(1)>>, 1, 1, 1, 0, 1, <<0, Scale>>)]

InitSeg ==
    \E shape \in SegShapes, land \in SegPatterns :
        /\ plates = SegPlates(shape, land)
        /\ last = [op |-> "construct", id |-> "A", args |-> <<>>,
                   ret |-> Zero, pre |-> SegPlates(shape, land), gone |-> {}]
        /\ gone = {}
        /\ steps = 0

NextSeg ==
    \/ \E c \in SegPoints : steps < MaxSegSteps /\ AddCollision("A", c[1], c[2])
    \/ \E c \in SegPoints :
         steps < MaxSegSteps /\ GetCollisionInfo("A", c[1], c[2])
    \/ steps < MaxSegSteps /\ ResetSegments("A")

SpecSeg == InitSeg /\ [][NextSeg]_vars

(***************************************************************************)
(* The properties.                                                         *)
(***************************************************************************)
Cells(p) == 0..(p.width * p.height - 1)
WorldCells == (0..(WorldW - 1)) \X (0..(WorldH - 1))
\* the plate the last operation ran on, after and before it
Now == plates[last.id]
Before == last.pre[last.id]
\* the fields of a plate that describe its crust and its continents
Crust(p) == <<p.map, p.age_map, p.mass, p.segment, p.seg_data>>

\* C1: after any sequence of operations the stored mass of every plate is
\* the sum of the heights of the cells of its raster.
MassIsSumOfHeights ==
    \A id \in PlateIds : plates[id].mass = RSum(plates[id].map)

\* C2: A.aggregateCrust(B, wx, wy) leaves A.mass + B.mass unchanged, and
\* returns the decrease of A.mass, which is the increase of B.mass.
AggregateConservesMass ==
    last.op = "aggregateCrust" =>
        LET b == last.args[1]
        IN  /\ RAdd(Now.mass, plates[b].mass)
                 = RAdd(Before.mass, last.pre[b].mass)
            /\ last.ret = RSub(Before.mass, Now.mass)
            /\ last.ret = RSub(plates[b].mass, last.pre[b].mass)

\* a continent has been moved to a plate whose raster grew to receive it
AggregateConservesMassWitness ==
    /\ last.op = "aggregateCrust"
    /\ RPos(last.ret)
    /\ plates[last.args[1]].width > last.pre[last.args[1]].width

\* C3: once aggregateCrust has moved a continent away, every later
\* aggregateCrust of the plate at a cell that carries the id of that
\* continent, with no resetSegments in between, returns 0 and changes no
\* height, age, mass, segment id or continent entry of either plate.
AggregateIdempotent ==
    (/\ last.op = "aggregateCrust"
     /\ <<last.id, selectCollisionSegment(Before, last.args[2], last.args[3])>>
            \in last.gone)
    => /\ last.ret = Zero
       /\ \A id \in PlateIds : Crust(plates[id]) = Crust(last.pre[id])

\* C4: every cell with a positive height has a segment id that is UNSET or
\* the index of an entry of seg_data with area > 0.
NoCrustOnTombstone ==
    \A id \in PlateIds : \A i \in Cells(plates[id]) :
        RPos(At(plates[id].map, i)) =>
            \/ At(plates[id].segment, i) = UNSET
            \/ /\ At(plates[id].segment, i) < Len(plates[id].seg_data)
               /\ plates[id].seg_data[At(plates[id].segment, i) + 1].area > 0

\* C5: every cell whose segment id is not UNSET lies inside the bounding box
\* of the entry of seg_data that its id names.
SegmentInsideBox ==
    \A id \in PlateIds : \A i \in Cells(plates[id]) :
        At(plates[id].segment, i) # UNSET =>
            /\ At(plates[id].segment, i) < Len(plates[id].seg_data)
            /\ LET sd == plates[id].seg_data[At(plates[id].segment, i) + 1]
                   x == i % plates[id].width
                   y == i \div plates[id].width
               IN  sd.x0 <= x /\ x <= sd.x1 /\ sd.y0 <= y /\ y <= sd.y1

\* setCrust has grown a raster with a continent to the left: the cells of
\* the continent and its box have moved by the same distance
SegmentInsideBoxWitness ==
    /\ last.op = "setCrust"
    /\ Now.width > Before.width
    /\ ILeft(Now) # ILeft(Before)
    /\ Len(Now.seg_data) > 0
    /\ Now.seg_data[1].x0 > Before.seg_data[1].x0
    /\ \E i \in Cells(Now) : At(Now.segment, i) = 0

\* C6: every entry of seg_data with area > 0 has as its area the number of
\* cells whose segment id is its index.
AreaIsCellCount ==
    \A id \in PlateIds : \A s \in 1..Len(plates[id].seg_data) :
        plates[id].seg_data[s].area > 0 =>
            plates[id].seg_data[s].area
              = Cardinality({i \in Cells(plates[id]) :
                                At(plates[id].segment, i) = s - 1})

\* C7: after setCrust(x, y, z, t) with z > 0, getCrust(x, y) = z, the mass
\* has changed by z minus the old height of the cell, and the crust and the
\* timestamp of every other cell of the world are what they were.
SetCrustFrame ==
    (last.op = "setCrust" /\ RPos(last.args[3])) =>
        LET x == last.args[1]
            y == last.args[2]
            z == last.args[3]
        IN  /\ getCrust(Now, x, y) = z
            /\ Now.mass = RAdd(Before.mass, RSub(z, getCrust(Before, x, y)))
            /\ \A c \in WorldCells \ {<<x, y>>} :
                  /\ getCrust(Now, c[1], c[2]) = getCrust(Before, c[1], c[2])
                  /\ getCrustTimestamp(Now, c[1], c[2])
                       = getCrustTimestamp(Before, c[1], c[2])

\* setCrust has grown a raster that holds crust to the left
SetCrustFrameWitness ==
    /\ last.op = "setCrust"
    /\ RPos(last.args[3])
    /\ RPos(Before.mass)
    /\ Now.width > Before.width
    /\ ILeft(Now) # ILeft(Before)

\* C8: the size of the raster never decreases, and every change of it made
\* by setCrust is a multiple of 8 cells (one side grows along each axis).
GrowthByChunks ==
    /\ \A id \in PlateIds :
          /\ plates[id].width >= last.pre[id].width
          /\ plates[id].height >= last.pre[id].height
    /\ last.op = "setCrust" =>
          /\ (Now.width - Before.width) % 8 = 0
          /\ (Now.height - Before.height) % 8 = 0

\* C8, amended: the size of the raster never decreases, and every change of
\* it made by setCrust is a multiple of 8 cells, unless the growth is
\* clamped: then the raster takes the whole side of the world and has grown
\* at its right (bottom) end only.
GrowthByChunksOrToWorld ==
    /\ \A id \in PlateIds :
          /\ plates[id].width >= last.pre[id].width
          /\ plates[id].height >= last.pre[id].height
    /\ last.op = "setCrust" =>
          /\ \/ (Now.width - Before.width) % 8 = 0
             \/ Now.width = WorldW /\ Now.left = Before.left
          /\ \/ (Now.height - Before.height) % 8 = 0
             \/ Now.height = WorldH /\ Now.top = Before.top

\* setCrust has grown a raster by 8 columns, and one by less than 8 rows up
\* to the height of the world
GrowthByChunksOrToWorldWitness ==
    /\ last.op = "setCrust"
    /\ \E id \in PlateIds : plates[id].width - 8 \in {1, 2}
    /\ Now.height = WorldH
    /\ Before.height < WorldH
    /\ (WorldH - Before.height) % 8 # 0

OriginInWorld ==
    (last.op = "move" /\ (Before.vx + Before.dx # 0 \/ Before.vy + Before.dy # 0))
    => /\ worldContains(Now.left, Now.top)
       /\ Now.left = (Before.left + (Now.vx * Now.velocity) \div Scale)
                        % (WorldW * Scale)
       /\ Now.top = (Before.top + (Now.vy * Now.velocity) \div Scale)
                        % (WorldH * Scale)

\* the fields of a plate that move and collide may not change
Body(p) == <<p.map, p.age_map, p.mass, p.segment, p.seg_data, p.cx, p.cy,
             p.width, p.height>>

\* C11: move changes only the direction, the speed, the impulse accumulator
\* and the origin of the plate it is called on, and on return the impulse
\* accumulator is (0, 0).
MoveFrame ==
    last.op = "move" =>
        /\ Now.dx = 0 /\ Now.dy = 0
        /\ Body(Now) = Body(Before)
        /\ \A id \in PlateIds \ {last.id} : plates[id] = last.pre[id]

\* move has absorbed an impulse that collide had added, and moved the plate
MoveFrameWitness ==
    /\ last.op = "move"
    /\ Before.dx # 0
    /\ Now.ok
    /\ Now.velocity # Before.velocity
    /\ <<Now.left, Now.top>> # <<Before.left, Before.top>>

\* C12: with A.mass = 10, B.mass = 100, collMass = 10, contact normal (1, 0),
\* relative velocity (1, 1) and both accumulators zero, A.collide(B) adds
\* (-10/11, 0) to the accumulator of A and (+1/11, 0) to that of B.
ImpulseE3 ==
    (/\ last.op = "collide"
     /\ Before.mass = FromInt(10)
     /\ last.pre[last.args[1]].mass = FromInt(100)
     /\ last.args[4] = FromInt(10)
     /\ contactNormal(Before, last.pre[last.args[1]], last.args[2], last.args[3])
          = <<1, 0>>
     /\ Before.vx - last.pre[last.args[1]].vx = Scale
     /\ Before.vy - last.pre[last.args[1]].vy = Scale
     /\ \A id \in PlateIds : last.pre[id].dx = 0 /\ last.pre[id].dy = 0)
    => last.ret = <<Rat(-10, 11), Zero, Rat(1, 11), Zero>>

\* C19: collide changes only the impulse accumulators of the two plates, and
\* not even these when the contact normal has length zero or the plates are
\* separating along it.
CollideFrame ==
    last.op = "collide" =>
        LET b == last.pre[last.args[1]]
            n == contactNormal(Before, b, last.args[2], last.args[3])
        IN  /\ \A id \in PlateIds :
                  [plates[id] EXCEPT !.dx = 0, !.dy = 0]
                    = [last.pre[id] EXCEPT !.dx = 0, !.dy = 0]
            /\ (\/ n[1] * n[1] + n[2] * n[2] <= 0
                \/ ~RPos(relDotN(Before, b, n)))
               => \A id \in PlateIds : plates[id] = last.pre[id]

\* C19 witness: collide was called with a contact normal that is not zero,
\* on plates that are separating along it.
CollideFrameWitness ==
    /\ last.op = "collide"
    /\ LET b == last.pre[last.args[1]]
           n == contactNormal(Before, b, last.args[2], last.args[3])
       IN  /\ n # <<0, 0>>
           /\ relDotN(Before, b, n)[1] < 0

\* C13: erode only redistributes crust: the total of the heights after
\* erode(L) is the total before the call.
ErodeKeepsTotal ==
    last.op = "erode" => RSum(Now.map) = RSum(Before.map)

\* C14: after erode(L) on non-negative heights, a cell that had the maximum
\* height before the call is not higher than it was.
ErodeLowersMax ==
    (last.op = "erode" /\ \A i \in Cells(Before) : RLe(Zero, At(Before.map, i)))
    => \A i \in Cells(Before) :
          (\A j \in Cells(Before) : RLe(At(Before.map, j), At(Before.map, i)))
          => RLe(At(Now.map, i), At(Before.map, i))

\* C15: no height is negative, whatever the lower bound and the noise of
\* erode and the z of setCrust.
HeightsNonNegative ==
    \A id \in PlateIds : \A i \in Cells(plates[id]) :
        RLe(Zero, At(plates[id].map, i))

\* the neighbour of the cell (x, y) of p at distance (ax, ay), or none
Neighbour(p, x, y, ax, ay) ==
    LET nx == x + ax
        ny == y + ay
        okx == (0 <= nx /\ nx < p.width) \/ p.width = WorldW
        oky == (0 <= ny /\ ny < p.height) \/ p.height = WorldH
    IN  IF okx /\ oky
        THEN {((ny + p.height) % p.height) * p.width + ((nx + p.width) % p.width)}
        ELSE {}

FourNeighbours(p, index) ==
    LET x == index % p.width
        y == index \div p.width
    IN  <<Neighbour(p, x, y, -1, 0), Neighbour(p, x, y, 1, 0),
          Neighbour(p, x, y, 0, -1), Neighbour(p, x, y, 0, 1)>>

\* C20: a cell is seeded as a top exactly when its height is at least L and
\* its four neighbours exist and are strictly lower, a height of 0 included.
TopsAreStrictMaxima ==
    \A id \in PlateIds : \A L \in ErodeBounds : \A i \in Cells(plates[id]) :
        isTop(plates[id], i, L)
        <=> /\ RLe(L, At(plates[id].map, i))
            /\ \A k \in 1..4 :
                  /\ FourNeighbours(plates[id], i)[k] # {}
                  /\ \A j \in FourNeighbours(plates[id], i)[k] :
                        RLt(At(plates[id].map, j), At(plates[id].map, i))

\* C16: addCrustBySubduction never grows the raster and changes at most one
\* cell: nothing, or the cell at the local coordinates (x', y') of the offset
\* target, which lie inside the raster; that cell had crust and gains z, as
\* does the mass.  A target outside the raster is dropped.
SubductionOneCell ==
    last.op = "addCrustBySubduction" =>
        LET z == last.args[3]
            tx == last.ret[1]
            ty == last.ret[2]
            i == ty * Before.width + tx
        IN  /\ \A id \in PlateIds \ {last.id} : plates[id] = last.pre[id]
            /\ <<Now.width, Now.height, Now.left, Now.top>>
                 = <<Before.width, Before.height, Before.left, Before.top>>
            /\ \/ Now = Before
               \/ /\ 0 <= tx /\ tx < Before.width
                  /\ 0 <= ty /\ ty < Before.height
                  /\ RPos(At(Before.map, i))
                  /\ Now.map = Put(Before.map, i, RAdd(At(Before.map, i), z))
                  /\ Now.mass = RAdd(Before.mass, z)
                  /\ [Now EXCEPT !.map = Before.map, !.mass = Before.mass,
                                 !.age_map = Put(@, i, At(Before.age_map, i))]
                       = Before

\* C17: a call of addCollision at a cell that already has a continent keeps
\* the continent's id and the table of segments, and raises only that
\* continent's coll_count, by one; a call at a cell without one adds at most
\* one entry and leaves the cell with a continent, so k calls in a row at the
\* same cell add at most one entry, on the first, and raise coll_count by k.
\* getCollisionInfo then reports that count and count / (1 + area).
CollisionsCounted ==
    last.op = "addCollision" =>
        LET i == getMapIndex(Before, last.args[1], last.args[2]).index
            old == At(Before.segment, i)
            id == At(Now.segment, i)
            known == Len(Before.seg_data)
            info == getCollisionInfo(Now, last.args[1], last.args[2])
        IN  /\ id < Len(Now.seg_data)
            /\ Len(Now.seg_data) <= known + 1
            /\ old < known =>
                 /\ id = old
                 /\ Now = [Before EXCEPT !.seg_data[id + 1].coll_count = @ + 1]
            /\ old >= known =>
                 /\ Now.seg_data[id + 1].coll_count
                      = 1 + (IF id < known
                             THEN Before.seg_data[id + 1].coll_count ELSE 0)
                 /\ \A k \in 1..known : k # id + 1 =>
                      Now.seg_data[k].coll_count = Before.seg_data[k].coll_count
            /\ info.plate = Now
            /\ info.count = Now.seg_data[id + 1].coll_count
            /\ info.ratio = Rat(info.count, 1 + Now.seg_data[id + 1].area)
            /\ last.ret = FromInt(Now.seg_data[id + 1].area)

\* C17 witness: a later call at a cell whose continent already counted one.
CollisionsCountedWitness ==
    /\ last.op = "addCollision"
    /\ At(Before.segment, getMapIndex(Before, last.args[1], last.args[2]).index)
         < Len(Before.seg_data)
    /\ getCollisionInfo(Now, last.args[1], last.args[2]).count >= 2
    /\ Len(Now.seg_data) = Len(Before.seg_data)

\* The cells i and j of plate p are 4-connected neighbours; a step crosses
\* an edge of the raster iff the plate is as large as the world on that axis.
Adjacent(p, i, j) ==
    LET xi == i % p.width
        yi == i \div p.width
        xj == j % p.width
        yj == j \div p.width
    IN  \/ /\ yi = yj
           /\ \/ xj = xi + 1 \/ xi = xj + 1
              \/ p.width = WorldW /\ {xi, xj} = {0, p.width - 1}
        \/ /\ xi = xj
           /\ \/ yj = yi + 1 \/ yi = yj + 1
              \/ p.height = WorldH /\ {yi, yj} = {0, p.height - 1}

\* The cells reachable from the cells of S through continental cells.
RECURSIVE Reach(_, _)
Reach(p, S) ==
    LET T == S \cup {j \in Cells(p) :
                        Continental(p, j) /\ \E i \in S : Adjacent(p, i, j)}
    IN  IF T = S THEN S ELSE Reach(p, T)

\* the lookup of the last operation started a flood fill on a raster
\* without segments, at a continental cell
FreshFill ==
    /\ last.op \in {"addCollision", "getCollisionInfo"}
    /\ Before.seg_data = <<>>
    /\ \A i \in Cells(Before) : At(Before.segment, i) = UNSET
    /\ Continental(Before, getMapIndex(Before, last.args[1], last.args[2]).index)

\* C18: createSegment on a raster without segments, at a continental cell,
\* appends exactly one entry and gives its id to exactly the cells that are
\* 4-connected to the cell through continental cells (across an edge iff the
\* plate is as large as the world on that axis); the entry's area is their
\* number and its box is their bounding box.
FloodFillIsComponent ==
    FreshFill =>
        LET R == Reach(Before, {getMapIndex(Before, last.args[1],
                                            last.args[2]).index})
            d == Now.seg_data[1]
            xs == {i % Before.width : i \in R}
            ys == {i \div Before.width : i \in R}
        IN  /\ Len(Now.seg_data) = 1
            /\ \A i \in Cells(Now) :
                 At(Now.segment, i) = (IF i \in R THEN 0 ELSE UNSET)
            /\ d.area = Cardinality(R)
            /\ \A x \in xs : d.x0 <= x /\ x <= d.x1
            /\ \A y \in ys : d.y0 <= y /\ y <= d.y1
            /\ {d.x0, d.x1} \subseteq xs
            /\ {d.y0, d.y1} \subseteq ys

\* C18 witness: a fill of the plate as large as the world that crossed the
\* left edge and went on to another row, but did not take every land cell.
FloodFillIsComponentWitness ==
    /\ FreshFill
    /\ Before.width = WorldW
    /\ \E i, j, k \in Cells(Now) :
         /\ i % Now.width = 0 /\ j % Now.width = Now.width - 1
         /\ k \div Now.width # i \div Now.width
         /\ At(Now.segment, i) = 0 /\ At(Now.segment, j) = 0
         /\ At(Now.segment, k) = 0
    /\ \E i \in Cells(Now) : Continental(Now, i) /\ At(Now.segment, i) = UNSET

\* C21: the sink of every cell that phase 1 of erode lets flow is one of the
\* cell's four neighbours, taken with wrap on an axis the plate spans, and
\* a lowest one of its strictly lower neighbours; it is a cell of the raster.
SinkIsLowestNeighbour ==
    last.op = "erode" =>
        \A k \in 1..Len(last.ret.flows) :
            LET index == last.ret.flows[k][1]
                dest == last.ret.flows[k][2]
                lower == {j \in UNION {FourNeighbours(Before, index)[d] :
                                         d \in 1..4} :
                            RLt(At(Before.map, j), At(Before.map, index))}
            IN  /\ dest \in lower
                /\ \A j \in lower : RLe(At(Before.map, dest), At(Before.map, j))

\* C22: the river loop of erode ends with both lists empty, no cell is added
\* to the sinks twice, and the cells popped are the tops and the sinks, at
\* most (number of tops + number of cells).
RiverTerminates ==
    last.op = "erode" =>
        LET r == last.ret
            pushed == {k \in 1..Len(r.flows) : r.flows[k][3]}
        IN  /\ r.sources = <<>> /\ r.sinks = <<>>
            /\ \A j, k \in pushed : r.flows[j][2] = r.flows[k][2] => j = k
            /\ r.pops = r.tops + Cardinality(pushed)
            /\ r.pops <= r.tops + Cardinality(Cells(Before))

\* C22 witness: an erode in which a sink was popped and in which two cells
\* flowed to the same sink.
RiverTerminatesWitness ==
    /\ last.op = "erode"
    /\ last.ret.pops > last.ret.tops
    /\ \E j, k \in 1..Len(last.ret.flows) :
         /\ j # k
         /\ last.ret.flows[j][2] = last.ret.flows[k][2]
         /\ last.ret.flows[j][3]

====
